---- MODULE Spec2Model ----
(***************************************************************************)
(* A model of bulk_image_renamer.py: the ImageRenamer class (file          *)
(* selection, the four naming strategies, execute_rename) and main().      *)
(*                                                                         *)
(* A Python str is modelled as a sequence of one-character strings, so     *)
(* that the string operations of the source (lower, zfill, rsplit,         *)
(* replace, re.sub, strip, comparison) are computed and not assumed.       *)
(* All paths of one run lie in the single directory given on the command   *)
(* line and no modelled name holds a "/", so a path is represented by its  *)
(* final component.                                                        *)
(***************************************************************************)
EXTENDS Integers, Sequences, FiniteSets, TLC

VARIABLES
    args,        \* the parsed command line (argparse namespace)
    isdir,       \* whether args.directory is an existing directory
    platform,    \* "posix" or "nt": decides os.rename onto an existing file
    fs,          \* the directory: name -> [isfile, mtime, content]
    fs0,         \* the directory as it was when the program started
    renamer,     \* <<>> before construction, then <<the ImageRenamer fields>>
    rename_map,  \* the dict built by the strategy, in insertion order
    i,           \* number of entries execute_rename's loop has processed
    out,         \* the lines printed so far
    calls,       \* the os.rename calls issued so far, with their outcome
    fsops,       \* the kinds of filesystem calls issued so far
    pc           \* position in main()

vars == <<args, isdir, platform, fs, fs0, renamer, rename_map, i, out, calls, fsops, pc>>

----------------------------------------------------------------------------
(* Characters and str operations                                           *)

\* The printable ASCII characters in code-point order, 32 (space) to 126.
\* Code point 96 cannot be written as a string literal here; its place is
\* held by an entry that no modelled name contains.
Ascii ==
    <<" ", "!", "\"", "#", "$", "%", "&", "'", "(", ")", "*", "+", ",", "-", ".", "/",
      "0", "1", "2", "3", "4", "5", "6", "7", "8", "9", ":", ";", "<", "=", ">", "?",
      "@", "A", "B", "C", "D", "E", "F", "G", "H", "I", "J", "K", "L", "M", "N", "O",
      "P", "Q", "R", "S", "T", "U", "V", "W", "X", "Y", "Z", "[", "\\", "]", "^", "_",
      "GRAVE", "a", "b", "c", "d", "e", "f", "g", "h", "i", "j", "k", "l", "m", "n", "o",
      "p", "q", "r", "s", "t", "u", "v", "w", "x", "y", "z", "{", "|", "}", "~">>

Chars == {Ascii[k] : k \in 1..Len(Ascii)}

\* ord(c)
CodeTable == [c \in Chars |-> 31 + (CHOOSE k \in 1..Len(Ascii) : Ascii[k] = c)]

Code(c) == CodeTable[c]

\* str.lower() on one character
Lower(c) == IF Code(c) \in 65..90 THEN Ascii[Code(c) + 32 - 31] ELSE c

\* str.lower()
StrLower(s) == [k \in 1..Len(s) |-> Lower(s[k])]

\* \w of the re module, on ASCII
IsWordChar(c) == Code(c) \in (48..57) \cup (65..90) \cup (97..122) \cup {95}

\* \s of the re module, on printable ASCII
IsSpaceChar(c) == c = " "

\* s < t on Python strs: lexicographic by code point
RECURSIVE StrLess(_, _)
StrLess(s, t) ==
    IF t = <<>> THEN FALSE
    ELSE IF s = <<>> THEN TRUE
    ELSE IF s[1] # t[1] THEN Code(s[1]) < Code(t[1])
    ELSE StrLess(Tail(s), Tail(t))

\* s.rfind(c), 1-based; 0 when c does not occur
RFind(s, c) ==
    IF \E k \in 1..Len(s) : s[k] = c
    THEN CHOOSE k \in 1..Len(s) : s[k] = c /\ \A m \in (k+1)..Len(s) : s[m] # c
    ELSE 0

\* s.rsplit('.', 1)[0]
RSplitHead(s) == IF RFind(s, ".") = 0 THEN s ELSE SubSeq(s, 1, RFind(s, ".") - 1)

\* s.rsplit('.', 1)[1], defined when '.' occurs in s
RSplitLast(s) == SubSeq(s, RFind(s, ".") + 1, Len(s))

\* PurePath.suffix of a final path component
Suffix(name) ==
    IF 1 < RFind(name, ".") /\ RFind(name, ".") < Len(name)
    THEN SubSeq(name, RFind(name, "."), Len(name))
    ELSE <<>>

RECURSIVE Digits(_)
Digits(n) == IF n < 10 THEN <<Ascii[n + 17]>> ELSE Append(Digits(n \div 10), Ascii[(n % 10) + 17])

\* str(n) for an int
Str(n) == IF n < 0 THEN <<"-">> \o Digits(-n) ELSE Digits(n)

Zeros(k) == [m \in 1..k |-> "0"]

\* s.zfill(width): zeros go after a leading sign
ZFill(s, width) ==
    IF Len(s) >= width THEN s
    ELSE IF s # <<>> /\ s[1] \in {"+", "-"}
         THEN <<s[1]>> \o Zeros(width - Len(s)) \o Tail(s)
         ELSE Zeros(width - Len(s)) \o s

StartsWith(s, p) == Len(p) <= Len(s) /\ SubSeq(s, 1, Len(p)) = p

\* s.replace(old, new) for a non-empty old: leftmost, non-overlapping
RECURSIVE Replace(_, _, _)
Replace(s, old, new) ==
    IF s = <<>> THEN <<>>
    ELSE IF StartsWith(s, old) THEN new \o Replace(SubSeq(s, Len(old) + 1, Len(s)), old, new)
    ELSE <<s[1]>> \o Replace(Tail(s), old, new)

\* sorted(s) on a list of names.  Python's sort is stable: each element goes
\* after the elements that are smaller, or that are equal and come earlier.
SortedByName(s) ==
    LET Rank(k) == 1 + Cardinality({m \in 1..Len(s) :
                        \/ StrLess(s[m], s[k])
                        \/ (~StrLess(s[k], s[m]) /\ m < k)})
    IN  [p \in 1..Len(s) |-> s[CHOOSE k \in 1..Len(s) : Rank(k) = p]]

\* s.sort(key=lambda x: x.stat().st_mtime), stable as well
SortedByMtime(disk, s) ==
    LET Rank(k) == 1 + Cardinality({m \in 1..Len(s) :
                        \/ disk[s[m]].mtime < disk[s[k]].mtime
                        \/ (disk[s[m]].mtime = disk[s[k]].mtime /\ m < k)})
    IN  [p \in 1..Len(s) |-> s[CHOOSE k \in 1..Len(s) : Rank(k) = p]]

\* d[k] = v on a dict kept as a sequence of <<key, value>> in insertion order
DictPut(d, k, v) ==
    IF \E m \in 1..Len(d) : d[m][1] = k
    THEN [m \in 1..Len(d) |-> IF d[m][1] = k THEN <<k, v>> ELSE d[m]]
    ELSE Append(d, <<k, v>>)

RECURSIVE DictFromPairs(_)
DictFromPairs(pairs) ==
    IF pairs = <<>> THEN <<>>
    ELSE DictPut(DictFromPairs(SubSeq(pairs, 1, Len(pairs) - 1)),
                 pairs[Len(pairs)][1], pairs[Len(pairs)][2])

----------------------------------------------------------------------------
(* class ImageRenamer                                                      *)

supported_extensions ==
    { <<".", "j", "p", "g">>, <<".", "j", "p", "e", "g">>, <<".", "p", "n", "g">>,
      <<".", "g", "i", "f">>, <<".", "b", "m", "p">>, <<".", "w", "e", "b", "p">>,
      <<".", "t", "i", "f", "f">>, <<".", "s", "v", "g">> }

\* get_image_files: listing is what iterdir() yields, in the order it yields it
GetImageFilesUnsorted(disk, listing) ==
    SelectSeq(listing,
              LAMBDA f : disk[f].isfile /\ StrLower(Suffix(f)) \in supported_extensions)

GetImageFiles(disk, listing) ==
    GetImageFilesUnsorted(disk, SortedByName(listing))

\* a faulty variant of generate_new_name: the index is left out of the number
GenerateNewNameNoIndex(self, index, extension) ==
    self.prefix \o self.pattern \o <<"_">>
        \o ZFill(Str(self.start_number), self.padding) \o self.suffix \o extension

GenerateNewName(self, index, extension) ==
    self.prefix \o self.pattern \o <<"_">>
        \o ZFill(Str(self.start_number + index), self.padding) \o self.suffix \o extension

RenameSequentialMap(self, disk, listing) ==
    LET image_files == GetImageFiles(disk, listing)
    IN  DictFromPairs([k \in 1..Len(image_files) |->
            <<image_files[k],
              GenerateNewName(self, k - 1, StrLower(Suffix(image_files[k])))>>])

\* a faulty variant of the date ordering: the list is not sorted by name first
DateOrderUnsorted(disk, listing) ==
    SortedByMtime(disk, GetImageFilesUnsorted(disk, listing))

\* image_files.sort(key=lambda x: x.stat().st_mtime) on get_image_files()
DateOrder(disk, listing) ==
    SortedByMtime(disk, GetImageFiles(disk, listing))

RenameByDateMap(self, disk, listing) ==
    LET image_files == DateOrder(disk, listing)
    IN  DictFromPairs([k \in 1..Len(image_files) |->
            <<image_files[k],
              GenerateNewName(self, k - 1, StrLower(Suffix(image_files[k])))>>])

TokenN == <<"{", "n", "}">>
TokenExt == <<"{", "e", "x", "t", "}">>

RenameWithCustomPatternMap(self, disk, listing, custom_pattern) ==
    LET image_files == GetImageFiles(disk, listing)
    IN  DictFromPairs([k \in 1..Len(image_files) |->
            <<image_files[k],
              Replace(Replace(custom_pattern, TokenN,
                              ZFill(Str(self.start_number + (k - 1)), self.padding)),
                      TokenExt, StrLower(Suffix(image_files[k])))>>])

\* re.sub(r'[-\s]+', '_', s)
RECURSIVE CollapseRuns(_)
CollapseRuns(s) ==
    IF s = <<>> THEN <<>>
    ELSE IF s[1] = "-" \/ IsSpaceChar(s[1])
         THEN IF Len(s) > 1 /\ (s[2] = "-" \/ IsSpaceChar(s[2]))
              THEN CollapseRuns(Tail(s))
              ELSE <<"_">> \o CollapseRuns(Tail(s))
         ELSE <<s[1]>> \o CollapseRuns(Tail(s))

\* s.strip('_')
RECURSIVE StripUnderscores(_)
StripUnderscores(s) ==
    IF s = <<>> THEN <<>>
    ELSE IF s[1] = "_" THEN StripUnderscores(Tail(s))
    ELSE IF s[Len(s)] = "_" THEN StripUnderscores(SubSeq(s, 1, Len(s) - 1))
    ELSE s

CleanFilename(filename) ==
    LET name_without_ext == RSplitHead(filename)
        extension == IF RFind(filename, ".") # 0
                     THEN <<".">> \o RSplitLast(filename) ELSE <<>>
        kept == SelectSeq(name_without_ext,
                          LAMBDA c : IsWordChar(c) \/ IsSpaceChar(c) \/ c = "-")
    IN  StrLower(StripUnderscores(CollapseRuns(kept))) \o extension

\* the while loop of rename_clean
RECURSIVE ResolveCollision(_, _, _, _)
ResolveCollision(disk, file, new_name, counter) ==
    IF new_name \in DOMAIN disk /\ new_name # file
    THEN ResolveCollision(disk, file,
             RSplitHead(new_name) \o <<"_">> \o Str(counter) \o <<".">> \o RSplitLast(new_name),
             counter + 1)
    ELSE new_name

RenameCleanMap(self, disk, listing) ==
    LET image_files == GetImageFiles(disk, listing)
    IN  DictFromPairs([k \in 1..Len(image_files) |->
            <<image_files[k],
              ResolveCollision(disk, image_files[k], CleanFilename(image_files[k]), 1)>>])

----------------------------------------------------------------------------
(* os.rename                                                               *)

MoveEntry(disk, src, dst) ==
    [n \in (DOMAIN disk \ {src}) \cup {dst} |-> IF n = dst THEN disk[src] ELSE disk[n]]

\* os.rename(src, dst): whether it returned, and the directory afterwards.
\* denied stands for the failures that do not depend on the names
\* (PermissionError and the like).
OsRename(disk, src, dst, plat, denied) ==
    IF denied \/ src \notin DOMAIN disk THEN [ok |-> FALSE, disk |-> disk]
    ELSE IF src = dst THEN [ok |-> TRUE, disk |-> disk]
    ELSE IF dst \in DOMAIN disk /\ (plat = "nt" \/ disk[src].isfile # disk[dst].isfile)
         THEN [ok |-> FALSE, disk |-> disk]
    ELSE [ok |-> TRUE, disk |-> MoveEntry(disk, src, dst)]

----------------------------------------------------------------------------
(* The inputs: command lines and directory contents                        *)

\* the most entries a directory holds
MaxFiles == 3

\* regular files a directory may hold
PoolFiles ==
    { <<"A", " ", "b", "!", ".", "j", "p", "g">>,      \* cleans to a_b.jpg
      <<"a", "-", "b", ".", "j", "p", "g">>,           \* cleans to a_b.jpg
      <<"a", "_", "b", ".", "j", "p", "g">>,           \* is its own cleaned name
      <<"a", "_", "b", "_", "1", ".", "j", "p", "g">>,
      <<"P", ".", "J", "P", "E", "G">>,                \* upper-case extension
      <<"p", "_", "1", ".", "j", "p", "g">>,           \* a name the sequential strategy generates
      <<"n", ".", "t", "x", "t">> }                    \* not an image

\* subdirectories a directory may hold
PoolDirs == { <<"d", ".", "p", "n", "g">> }

Pool == PoolFiles \cup PoolDirs

\* st_mtime values
Mtimes == {1, 2}

NoTemplate == <<>>
Template(s) == <<s>>

SequentialArgs ==
    [mode : {"sequential"}, pattern : {<<"p">>}, custom_pattern : {NoTemplate},
     start : {1, 9}, prefix : {<<>>}, suffix : {<<>>, <<"1">>}, padding : {1, 3},
     dry_run : {FALSE}, execute : BOOLEAN]

DateArgs ==
    [mode : {"date"}, pattern : {<<"p">>}, custom_pattern : {NoTemplate},
     start : {9}, prefix : {<<"s">>}, suffix : {<<>>}, padding : {1},
     dry_run : {FALSE}, execute : BOOLEAN]

CustomArgs ==
    [mode : {"custom"}, pattern : {<<"p">>},
     custom_pattern : {NoTemplate, Template(<<>>),
                       Template(<<"i", "{", "n", "}", "{", "e", "x", "t", "}">>)},
     start : {5}, prefix : {<<>>}, suffix : {<<>>}, padding : {1},
     dry_run : {FALSE}, execute : BOOLEAN]

CleanArgs ==
    [mode : {"clean"}, pattern : {<<"p">>}, custom_pattern : {NoTemplate},
     start : {1}, prefix : {<<>>}, suffix : {<<>>}, padding : {3},
     dry_run : BOOLEAN, execute : BOOLEAN]

ArgSets == SequentialArgs \cup DateArgs \cup CustomArgs \cup CleanArgs

Listings == {S \in SUBSET Pool : Cardinality(S) <= MaxFiles}

DiskOf(S, mt) ==
    [n \in S |-> [isfile |-> n \in PoolFiles, mtime |-> mt[n], content |-> n]]

\* the orders in which iterdir() may yield the entries of disk
RECURSIVE Orders(_)
Orders(S) ==
    IF S = {} THEN {<<>>}
    ELSE UNION {{<<x>> \o o : o \in Orders(S \ {x})} : x \in S}

IterdirOrders(disk) == Orders(DOMAIN disk)

\* Modification times are read by the date strategy alone and the platform
\* by os.rename alone, so they vary only where they are read.
Init ==
    /\ args \in ArgSets
    /\ isdir \in BOOLEAN
    /\ platform \in (IF args.execute THEN {"posix", "nt"} ELSE {"posix"})
    /\ \E S \in (IF isdir THEN Listings ELSE {{}}) :
         \E mt \in (IF args.mode = "date" THEN [S -> Mtimes] ELSE [S -> {1}]) :
            /\ fs = DiskOf(S, mt)
            /\ fs0 = DiskOf(S, mt)
    /\ renamer = <<>>
    /\ rename_map = <<>>
    /\ i = 0
    /\ out = <<>>
    /\ calls = <<>>
    /\ fsops = {}
    /\ pc = "main"

----------------------------------------------------------------------------
(* main()                                                                  *)

self == renamer[1]

\* `not args.custom_pattern`: None and '' are both falsy
TemplateAbsent(a) ==
    IF a.custom_pattern = NoTemplate THEN TRUE ELSE a.custom_pattern[1] = <<>>

\* dry_run = not args.execute
DryRunOf(a) == ~a.execute

\* lines 147-161: the directory check, then the construction of the renamer
MainStart ==
    /\ pc = "main"
    /\ fsops' = fsops \cup {"isdir"}
    /\ IF ~isdir
       THEN /\ out' = Append(out, <<"no_directory">>)
            /\ pc' = "done"
            /\ UNCHANGED renamer
       ELSE /\ renamer' = <<[pattern |-> args.pattern, start_number |-> args.start,
                             prefix |-> args.prefix, suffix |-> args.suffix,
                             padding |-> args.padding, dry_run |-> DryRunOf(args)]>>
            /\ pc' = "dispatch"
            /\ UNCHANGED out
    /\ UNCHANGED <<args, isdir, platform, fs, fs0, rename_map, i, calls>>

\* what building a mapping reads: iterdir and is_file always, stat().st_mtime
\* in the date strategy, exists() in the clean strategy when a file is selected
ReadsOf(mode, map) ==
    {"iterdir", "is_file"}
        \cup (IF mode = "date" /\ map # <<>> THEN {"stat"} ELSE {})
        \cup (IF mode = "clean" /\ map # <<>> THEN {"exists"} ELSE {})

Dispatched(map) ==
    /\ rename_map' = map
    /\ fsops' = fsops \cup ReadsOf(args.mode, map)
    /\ pc' = "execute"
    /\ UNCHANGED <<args, isdir, platform, fs, fs0, renamer, i, out, calls>>

\* lines 163-164
RenameSequential ==
    /\ pc = "dispatch" /\ args.mode = "sequential"
    /\ \E listing \in IterdirOrders(fs) : Dispatched(RenameSequentialMap(self, fs, listing))

\* lines 165-166
RenameByDate ==
    /\ pc = "dispatch" /\ args.mode = "date"
    /\ \E listing \in IterdirOrders(fs) : Dispatched(RenameByDateMap(self, fs, listing))

\* lines 167-170: custom mode without a template
CustomPatternRequired ==
    /\ pc = "dispatch" /\ args.mode = "custom" /\ TemplateAbsent(args)
    /\ out' = Append(out, <<"custom_pattern_required">>)
    /\ pc' = "done"
    /\ UNCHANGED <<args, isdir, platform, fs, fs0, renamer, rename_map, i, calls, fsops>>

\* lines 167-171: custom mode with a template
RenameWithCustomPattern ==
    /\ pc = "dispatch" /\ args.mode = "custom" /\ ~TemplateAbsent(args)
    /\ \E listing \in IterdirOrders(fs) :
          Dispatched(RenameWithCustomPatternMap(self, fs, listing, args.custom_pattern[1]))

\* lines 172-173
RenameClean ==
    /\ pc = "dispatch" /\ args.mode = "clean"
    /\ \E listing \in IterdirOrders(fs) : Dispatched(RenameCleanMap(self, fs, listing))

----------------------------------------------------------------------------
(* execute_rename                                                          *)

\* lines 98-102
ExecuteRenameBegin ==
    /\ pc = "execute"
    /\ IF rename_map = <<>>
       THEN /\ out' = Append(out, <<"no_files">>)
            /\ pc' = "done"
       ELSE /\ out' = Append(out, <<"header", self.dry_run, Len(rename_map)>>)
            /\ pc' = "loop"
    /\ i' = 0
    /\ UNCHANGED <<args, isdir, platform, fs, fs0, renamer, rename_map, calls, fsops>>

\* a faulty variant of the guard of line 107: the rename is issued in a dry run too
RenamesAlways(r) == TRUE

\* line 107
Renames(r) == ~r.dry_run

\* a faulty variant of lines 108-111: the exception is not caught and ends the run
AfterFailureAbort(k) == "done"

\* lines 110-111: the exception is caught and the loop goes on
AfterFailure(k) == "loop"

\* lines 104-111: one iteration of the loop
ExecuteRenameStep ==
    /\ pc = "loop" /\ i < Len(rename_map)
    /\ LET old_path == rename_map[i + 1][1]
           new_path == rename_map[i + 1][2]
           line == <<"entry", old_path, new_path>>
       IN  IF Renames(self)
           THEN \E denied \in BOOLEAN :
                  LET r == OsRename(fs, old_path, new_path, platform, denied)
                  IN  /\ fs' = r.disk
                      /\ calls' = Append(calls, [src |-> old_path, dst |-> new_path, ok |-> r.ok])
                      /\ fsops' = fsops \cup {"rename"}
                      /\ out' = IF r.ok THEN Append(out, line)
                                ELSE Append(Append(out, line), <<"error", old_path>>)
                      /\ pc' = IF r.ok THEN "loop" ELSE AfterFailure(i)
           ELSE /\ out' = Append(out, line)
                /\ UNCHANGED <<fs, calls, fsops, pc>>
    /\ i' = i + 1
    /\ UNCHANGED <<args, isdir, platform, fs0, renamer, rename_map>>

\* lines 113-116
ExecuteRenameEnd ==
    /\ pc = "loop" /\ i = Len(rename_map)
    /\ out' = IF self.dry_run THEN Append(out, <<"dry_run_completed">>)
              ELSE Append(out, <<"renamed", Len(rename_map)>>)
    /\ pc' = "done"
    /\ UNCHANGED <<args, isdir, platform, fs, fs0, renamer, rename_map, i, calls, fsops>>

Next ==
    \/ MainStart
    \/ RenameSequential
    \/ RenameByDate
    \/ CustomPatternRequired
    \/ RenameWithCustomPattern
    \/ RenameClean
    \/ ExecuteRenameBegin
    \/ ExecuteRenameStep
    \/ ExecuteRenameEnd

Spec == Init /\ [][Next]_vars

----------------------------------------------------------------------------
(* Vocabulary of the properties                                            *)

\* a strategy has built the mapping (every strategy lists the directory)
MapBuilt == "iterdir" \in fsops

\* the files the Selector selects from the directory the program started on
Selected ==
    {n \in DOMAIN fs0 : fs0[n].isfile /\ StrLower(Suffix(n)) \in supported_extensions}

Sources == {rename_map[k][1] : k \in 1..Len(rename_map)}

DistinctSources ==
    \A j, k \in 1..Len(rename_map) : j # k => rename_map[j][1] # rename_map[k][1]

DistinctDestinations ==
    \A j, k \in 1..Len(rename_map) : j # k => rename_map[j][2] # rename_map[k][2]

\* the (source, destination) pairs os.rename was called with, in call order
Attempted == [k \in 1..Len(calls) |-> <<calls[k].src, calls[k].dst>>]

Succeeded == {k \in 1..Len(calls) : calls[k].ok}

ErrorLines == {k \in 1..Len(out) : out[k][1] = "error"}

RenamedLines == {k \in 1..Len(out) : out[k][1] = "renamed"}

\* execute_rename has returned from a batch run in execute mode
ExecutedBatch ==
    /\ pc = "done"
    /\ renamer # <<>>
    /\ ~self.dry_run
    /\ MapBuilt
    /\ rename_map # <<>>

----------------------------------------------------------------------------
(* C1 *)

\* C1: in the clean strategy no two entries of the mapping have the same
\* destination, also when two names clean to the same name that is not on
\* disk.
C1_CleanDestinationsDistinct ==
    (args.mode = "clean" /\ MapBuilt) => DistinctDestinations

----------------------------------------------------------------------------
(* C2 *)

\* C2: after a batch in execute mode the reported number of renamed files is
\* the number of os.rename calls that succeeded, and every failed call has
\* its error line.
C2_ReportedCountIsSuccessCount ==
    ExecutedBatch =>
        /\ out[Len(out)] = <<"renamed", Cardinality(Succeeded)>>
        /\ Cardinality(ErrorLines) = Len(calls) - Cardinality(Succeeded)

----------------------------------------------------------------------------
(* C3 *)

\* C3: the run is a dry run unless --execute is given, and in a dry run the
\* directory stays as it was, no rename is issued and no count of renamed
\* files is reported.
C3_DryRunLeavesFilesystem ==
    renamer # <<>> =>
        /\ ~args.execute => self.dry_run
        /\ self.dry_run =>
              /\ fs = fs0
              /\ calls = <<>>
              /\ "rename" \notin fsops
              /\ RenamedLines = {}

\* a dry run over a mapping of two entries or more, one of which changes a
\* name, has finished
C3_Witness ==
    /\ pc = "done"
    /\ renamer # <<>>
    /\ self.dry_run
    /\ Len(rename_map) >= 2
    /\ \E k \in 1..Len(rename_map) : rename_map[k][1] # rename_map[k][2]
    /\ out[Len(out)] = <<"dry_run_completed">>

----------------------------------------------------------------------------
(* C4 *)

\* the attempts so far are the first i entries of the mapping, and the loop
\* is never stuck before the end of the mapping
C4_AttemptedInOrder ==
    (renamer # <<>> /\ MapBuilt /\ pc \in {"loop", "done"}) =>
        /\ ~self.dry_run => Attempted = SubSeq(rename_map, 1, i)
        /\ pc = "done" => i = Len(rename_map)
        /\ pc = "loop" =>
              /\ i <= Len(rename_map)
              /\ ENABLED (ExecuteRenameStep \/ ExecuteRenameEnd)

\* a step of the loop takes the next entry and stays in the loop, whatever
\* the outcome of its rename; the loop is left only after the last entry
C4_LoopAdvances ==
    pc = "loop" =>
        \/ i' = i + 1 /\ pc' = "loop" /\ rename_map' = rename_map
        \/ i' = i /\ pc' = "done" /\ i = Len(rename_map)

\* C4: in execute mode the entries are attempted once each in the order of
\* the mapping, a failed rename does not stop the attempts for the later
\* entries, and the batch runs to the last entry and ends there.
C4_EveryEntryAttempted == []C4_AttemptedInOrder /\ [][C4_LoopAdvances]_vars

\* a batch of three entries has finished although the rename of its first
\* entry failed
C4_Witness ==
    /\ ExecutedBatch
    /\ Len(calls) >= 3
    /\ ~calls[1].ok
    /\ calls[Len(calls)].ok

----------------------------------------------------------------------------
(* C5 *)

\* C5: custom mode without a template fails with the configuration error
\* before any filesystem access, and no mapping is built.
C5_ConfigErrorBeforeFilesystem ==
    (args.mode = "custom" /\ TemplateAbsent(args)) =>
        /\ fsops = {}
        /\ rename_map = <<>>
        /\ pc = "done" => out = << <<"custom_pattern_required">> >>

----------------------------------------------------------------------------
(* C6 *)

\* C6: in the sequential and date strategies the mapping has one entry per
\* selected file, with distinct sources and distinct destinations.
C6_SequentialDateDistinct ==
    (args.mode \in {"sequential", "date"} /\ MapBuilt) =>
        /\ Len(rename_map) = Cardinality(Selected)
        /\ Sources = Selected
        /\ DistinctSources
        /\ DistinctDestinations

\* a sequential mapping of three entries whose numbers pass from one digit
\* to two with a padding of one, with a digit as suffix and with extensions
\* of different lengths
C6_Witness ==
    /\ args.mode = "sequential" /\ MapBuilt
    /\ Len(rename_map) = 3
    /\ args.start = 9 /\ args.padding = 1 /\ args.suffix = <<"1">>
    /\ \E j, k \in 1..Len(rename_map) :
          Len(Suffix(rename_map[j][1])) # Len(Suffix(rename_map[k][1]))

----------------------------------------------------------------------------
(* C7 *)

\* C7: in the clean strategy a destination is the cleaned name when that
\* name is free, else the cleaned stem with _k before the extension for the
\* smallest k >= 1 that gives a free name; and no destination is the name of
\* a file on disk other than its own source.  A name is taken here when it
\* is on disk and is not the source.
C7_CleanSuffixIsSmallestFree ==
    (args.mode = "clean" /\ MapBuilt) =>
        \A e \in 1..Len(rename_map) :
            LET src == rename_map[e][1]
                dst == rename_map[e][2]
                cleaned == CleanFilename(src)
                Free(n) == n \notin DOMAIN fs0 \/ n = src
                Numbered(k) ==
                    RSplitHead(cleaned) \o <<"_">> \o Str(k) \o <<".">> \o RSplitLast(cleaned)
            IN  /\ Free(dst)
                /\ IF Free(cleaned) THEN dst = cleaned
                   ELSE \E k \in 1..(Cardinality(DOMAIN fs0) + 1) :
                           /\ Free(Numbered(k))
                           /\ \A m \in 1..(k - 1) : ~Free(Numbered(m))
                           /\ dst = Numbered(k)

----------------------------------------------------------------------------
(* C8 *)

\* C8: in the date strategy the entries are in ascending modification time,
\* files of equal modification time in the lexicographic order of their
\* names, whatever the order the directory is listed in.
C8_DateOrder ==
    (args.mode = "date" /\ MapBuilt) =>
        /\ Sources = Selected
        /\ \A j, k \in 1..Len(rename_map) :
              j < k =>
                 LET a == rename_map[j][1]
                     b == rename_map[k][1]
                 IN  \/ fs0[a].mtime < fs0[b].mtime
                     \/ (fs0[a].mtime = fs0[b].mtime /\ StrLess(a, b))

\* a date mapping of three entries with a tie in modification time and with
\* an older file whose name sorts after a newer one's
C8_Witness ==
    /\ args.mode = "date" /\ MapBuilt
    /\ Len(rename_map) = 3
    /\ \E j, k \in 1..Len(rename_map) :
          j < k /\ fs0[rename_map[j][1]].mtime = fs0[rename_map[k][1]].mtime
    /\ \E j, k \in 1..Len(rename_map) :
          j < k /\ StrLess(rename_map[k][1], rename_map[j][1])

----------------------------------------------------------------------------
(* C9 *)

\* C9: in the clean strategy every destination ends with the source's
\* extension in lower case.
C9_CleanExtensionLowerCased ==
    (args.mode = "clean" /\ MapBuilt) =>
        \A e \in 1..Len(rename_map) :
            Suffix(rename_map[e][2]) = StrLower(Suffix(rename_map[e][1]))

----------------------------------------------------------------------------
(* C10 *)

\* C10: applying a mapping destroys no file: the directory holds as many
\* files after the batch as before it.  Stated for the mappings whose
\* destinations are pairwise distinct, which the claim covers.
C10_NoFileDestroyed ==
    (MapBuilt /\ DistinctDestinations) =>
        Cardinality(DOMAIN fs) = Cardinality(DOMAIN fs0)

====
